---- MODULE Spec2Model ----
(***************************************************************************)
(* A model of protobuf-2-json: the varint decoder (src/src/varint.rs), the *)
(* field value and wire type decoders (src/src/message.rs) and the parser  *)
(* with its JSON projector (src/src/parser.rs).                            *)
(*                                                                         *)
(* Representation.                                                         *)
(*   byte        a number in 0..255                                        *)
(*   &[u8]       a sequence of bytes; a cursor is the remaining suffix     *)
(*   u64, u128   a little-endian sequence of bits without high zero bits   *)
(*               (zero is << >>), so that the whole 64-bit range exists;   *)
(*               as_u64 cuts a bit sequence to the width of the type       *)
(*   String      the sequence of its UTF-8 bytes                           *)
(*   Value       [t |-> "num", v |-> bits], [t |-> "str", v |-> bytes],    *)
(*               [t |-> "arr", v |-> sequence], [t |-> "obj", v |-> map]   *)
(*   Map         a function from keys (Strings) to Values; serde_json's    *)
(*               Map is ordered by key, so two maps are equal exactly when *)
(*               they hold the same entries                                *)
(*   Option      None, Some(v)                                             *)
(* usize is 64 bits wide (the build targets of the crate's benchmarks).    *)
(* The optional "stfu8" feature is off, as in the default build.           *)
(***************************************************************************)
EXTENDS Integers, Sequences, FiniteSets, TLC

VARIABLES input, bytes_encoding, op, pc, data, msg, ret

vars == <<input, bytes_encoding, op, pc, data, msg, ret>>

----------------------------------------------------------------------------
(* Bounds of the model. *)

\* Every byte sequence over Alphabet up to this length is an input.
MaxLen == 3

----------------------------------------------------------------------------
(* Numbers. *)

\* The width of u64 and (on the modelled target) of usize.
U64_BITS == 64

Min(a, b) == IF a < b THEN a ELSE b

Max(a, b) == IF a < b THEN b ELSE a

\* A function on 1..n as a sequence, evaluated once.
AsSeq(f) == f \o << >>

\* The low w bits of a small number n, least significant first.
Bits(n, w) == AsSeq([i \in 1..w |-> (n \div (2 ^ (i - 1))) % 2])

\* A bit sequence without its high zero bits.
Trim(x) ==
    LET ones == {i \in 1..Len(x) : x[i] = 1}
    IN  IF ones = {} THEN << >>
        ELSE SubSeq(x, 1, CHOOSE i \in ones : \A j \in ones : j <= i)

\* A number as u64 (`as u64`, and the result type of a u64 operation).
as_u64(x) == Trim(SubSeq(x, 1, Min(Len(x), U64_BITS)))

\* `v as usize`, `len as usize`.
as_usize(x) == as_u64(x)

\* The u64 of a byte (`b as u64`).
FromByte(b) == Trim(Bits(b, 8))

\* x << shift on u64: the bits shifted past bit 63 are lost.
Shl(x, shift) == as_u64(AsSeq([i \in 1..shift |-> 0]) \o x)

\* x >> shift.
Shr(x, shift) == SubSeq(x, shift + 1, Len(x))

BitAt(x, i) == IF i <= Len(x) THEN x[i] ELSE 0

\* x | y.
BitOr(x, y) ==
    AsSeq([i \in 1..Max(Len(x), Len(y)) |-> Max(BitAt(x, i), BitAt(y, i))])

RECURSIVE ToNat(_)
\* The number a bit sequence of at most 30 bits stands for.
ToNat(x) == IF x = << >> THEN 0 ELSE x[1] + 2 * ToNat(Tail(x))

\* n < x, for a small number n (a slice length) and a u64 x.
NatLess(n, x) == Len(x) > 30 \/ n < ToNat(x)

\* (tag & 0x07) as u8.
LowBits3(x) == ToNat(SubSeq(x, 1, Min(3, Len(x))))

\* The four 16-bit limbs of a u64, least significant first.
Limbs(x) == AsSeq([j \in 1..4 |-> ToNat(SubSeq(x, Min(16 * (j - 1) + 1, Len(x) + 1),
                                                  Min(16 * j, Len(x))))])

\* Long division of a number in limbs by 10, from the highest limb down.
DivMod10(l) ==
    LET t4 == l[4]
        t3 == (t4 % 10) * 65536 + l[3]
        t2 == (t3 % 10) * 65536 + l[2]
        t1 == (t2 % 10) * 65536 + l[1]
    IN  [q |-> <<t1 \div 10, t2 \div 10, t3 \div 10, t4 \div 10>>, r |-> t1 % 10]

RECURSIVE Digits(_)
\* The decimal digits of a number in limbs, as ASCII; none for zero.
Digits(l) ==
    IF l = <<0, 0, 0, 0>> THEN << >>
    ELSE LET d == DivMod10(l) IN Append(Digits(d.q), 48 + d.r)

\* u64::to_string
to_string(x) == IF x = << >> THEN <<48>> ELSE Digits(Limbs(x))

\* u64::from_le_bytes, u32::from_le_bytes
from_le_bytes(arr) ==
    Trim(AsSeq([i \in 1..(8 * Len(arr)) |->
                  (arr[((i - 1) \div 8) + 1] \div (2 ^ ((i - 1) % 8))) % 2]))

----------------------------------------------------------------------------
(* src/src/varint.rs *)

MSB == 128

DROP_MSB == 127

\* b & MSB == 0
MsbClear(b) == (b \div MSB) % 2 = 0

\* b & DROP_MSB
DropMsb(b) == b % (DROP_MSB + 1)

\* A limit of nine groups.
MaxShift_nine == 8 * 7

\* The last group that decode_var reads: `shift > (9 * 7)` after the tenth.
MaxShift == 63

RECURSIVE decode_var_loop(_, _, _, _)
\* The for loop of decode_var from byte i on.
decode_var_loop(src, i, result, shift) ==
    IF i > Len(src) THEN [success |-> FALSE, result |-> result, shift |-> shift]
    ELSE LET b == src[i]
             msb_dropped == DropMsb(b)
             result2 == BitOr(result, Shl(FromByte(msb_dropped), shift))
             shift2 == shift + 7
         IN  IF MsbClear(b) \/ shift2 > MaxShift
             THEN [success |-> MsbClear(b), result |-> result2, shift |-> shift2]
             ELSE decode_var_loop(src, i + 1, result2, shift2)

\* decode_var that advances the cursor past the bytes read on failure too.
decode_var_advancing(src) ==
    LET l == decode_var_loop(src, 1, << >>, 0)
    IN  [ok |-> l.success,
         value |-> IF l.success THEN l.result ELSE << >>,
         src |-> SubSeq(src, Min(l.shift \div 7, Len(src)) + 1, Len(src))]

\* What decode_var does once its loop has ended in l: on success the cursor
\* moves past the shift / 7 bytes read, on failure it stays.
decode_var_result(src, l) ==
    IF l.success
    THEN [ok |-> TRUE, value |-> l.result,
          src |-> SubSeq(src, (l.shift \div 7) + 1, Len(src))]
    ELSE [ok |-> FALSE, value |-> << >>, src |-> src]

\* decode_var(src): the result and the cursor afterwards.
decode_var(src) == decode_var_result(src, decode_var_loop(src, 1, << >>, 0))

----------------------------------------------------------------------------
(* src/src/message.rs *)

\* impl From<u8> for WireType. code is the raw value; for the four valid wire
\* types it is the discriminant.
WireType_from(value) ==
    [kind |-> CASE value = 0 -> "Varint"
                [] value = 1 -> "Fixed64"
                [] value = 2 -> "LengthDelimited"
                [] value = 5 -> "Fixed32"
                [] OTHER -> "Invalid",
     code |-> value]

Incomplete(wire_type, d) == [kind |-> "Incomplete", wire_type |-> wire_type, bytes |-> d]

\* The Fixed64 and Fixed32 arms: `width` bytes, little-endian.
decode_fixed(d, wire_type, width) ==
    IF Len(d) < width
    THEN [value |-> Incomplete(wire_type, d), data |-> d]
    ELSE LET num_bytes == SubSeq(d, 1, width)
             rest == SubSeq(d, width + 1, Len(d))
         IN  [value |-> [kind |-> wire_type.kind, v |-> from_le_bytes(num_bytes)],
              data |-> rest]

\* The LengthDelimited arm that takes the bytes there are when too few follow.
decode_length_delimited_short(d, wire_type, prefix) ==
    LET len == as_usize(prefix)
        n == IF NatLess(Len(d), len) THEN Len(d) ELSE ToNat(len)
    IN  [value |-> [kind |-> "LengthDelimited", bytes |-> SubSeq(d, 1, n)],
         data |-> SubSeq(d, n + 1, Len(d))]

\* The LengthDelimited arm once the length prefix is decoded: d is the cursor
\* after the prefix.
decode_length_delimited(d, wire_type, prefix) ==
    LET len == as_usize(prefix)
    IN  IF NatLess(Len(d), len)
        THEN [value |-> Incomplete(wire_type, d), data |-> d]
        ELSE LET n == ToNat(len)
             IN  [value |-> [kind |-> "LengthDelimited", bytes |-> SubSeq(d, 1, n)],
                  data |-> SubSeq(d, n + 1, Len(d))]

\* The Varint arm, r being the result of decode_var(data).
decode_varint(wire_type, r) ==
    IF r.ok
    THEN [value |-> [kind |-> "Varint", v |-> r.value], data |-> r.src]
    ELSE [value |-> Incomplete(wire_type, r.src), data |-> r.src]

\* The LengthDelimited arm, r being the result of decode_var(data) for the
\* length prefix.
decode_length_prefix(wire_type, r) ==
    IF r.ok
    THEN decode_length_delimited(r.src, wire_type, r.value)
    ELSE [value |-> Incomplete(wire_type, r.src), data |-> r.src]

\* FieldValue::decode(data, wire_type): the value and the cursor afterwards.
FieldValue_decode(d, wire_type) ==
    CASE wire_type.kind = "Varint" -> decode_varint(wire_type, decode_var(d))
      [] wire_type.kind = "Fixed64" -> decode_fixed(d, wire_type, 8)
      [] wire_type.kind = "LengthDelimited" ->
            decode_length_prefix(wire_type, decode_var(d))
      [] wire_type.kind = "Fixed32" -> decode_fixed(d, wire_type, 4)
      [] OTHER ->
            [value |-> [kind |-> "Invalid", wt |-> wire_type.code, bytes |-> d],
             data |-> d]

----------------------------------------------------------------------------
(* src/src/parser.rs: parse_once *)

None == [some |-> FALSE]

Some(v) == [some |-> TRUE, v |-> v]

EmptyMessage == [fields |-> << >>, garbage |-> None]

\* msg.fields.push(Field { number, value }), f being what FieldValue::decode
\* returned: the value and the cursor.
parse_once_push(m, number, f) ==
    [data |-> f.data,
     msg |-> [m EXCEPT !.fields = Append(@, [number |-> number, value |-> f.value])],
     done |-> FALSE]

\* `match decode_var(&mut data)`, t being the result: garbage and break, or
\* the field number tag >> 3 and the wire type tag & 0x07.
parse_once_tag(m, t) ==
    IF ~t.ok
    THEN [data |-> t.src, msg |-> [m EXCEPT !.garbage = Some(t.src)], done |-> TRUE]
    ELSE parse_once_push(m, Shr(t.value, 3),
                         FieldValue_decode(t.src, WireType_from(LowBits3(t.value))))

\* One iteration of the loop of parse_once on the cursor d and the message m:
\* the cursor and the message afterwards, and whether the loop was left.
parse_once_iter(d, m) ==
    IF d = << >> THEN [data |-> d, msg |-> m, done |-> TRUE]
    ELSE parse_once_tag(m, decode_var(d))

RECURSIVE parse_once_loop(_, _)

\* After an iteration that ended in s: return msg, or go round again.
parse_once_next(s) == IF s.done THEN s.msg ELSE parse_once_loop(s.data, s.msg)

parse_once_loop(d, m) == parse_once_next(parse_once_iter(d, m))

\* Parser::parse_once(data).
parse_once(d) == parse_once_loop(d, EmptyMessage)

----------------------------------------------------------------------------
(* Text: UTF-8 validation, control characters, the byte encodings. *)

Cont == <<128, 191>>

\* The ranges of the bytes that must follow lead byte b in well-formed
\* UTF-8; b is a lead byte exactly when IsLead(b).
Utf8Tail(b) ==
    CASE b \in 194..223 -> <<Cont>>
      [] b = 224 -> <<<<160, 191>>, Cont>>
      [] b \in 225..236 \cup 238..239 -> <<Cont, Cont>>
      [] b = 237 -> <<<<128, 159>>, Cont>>
      [] b = 240 -> <<<<144, 191>>, Cont, Cont>>
      [] b \in 241..243 -> <<Cont, Cont, Cont>>
      [] b = 244 -> <<<<128, 143>>, Cont, Cont>>
      [] OTHER -> << >>

IsLead(b) == b \in 0..127 \cup 194..244

RECURSIVE Matched(_, _, _, _)
\* How many of the bytes of s after position i match the ranges tail[k..].
Matched(s, i, tail, k) ==
    IF k > Len(tail) \/ i + k > Len(s) THEN k - 1
    ELSE IF s[i + k] >= tail[k][1] /\ s[i + k] <= tail[k][2]
         THEN Matched(s, i, tail, k + 1)
         ELSE k - 1

\* The chunk of s that starts at i: a character, or a maximal ill-formed
\* subpart (what from_utf8_lossy replaces by one U+FFFD).
Chunk(s, i) ==
    IF ~IsLead(s[i]) THEN [valid |-> FALSE, len |-> 1]
    ELSE LET tail == Utf8Tail(s[i])
             m == Matched(s, i, tail, 1)
         IN  [valid |-> m = Len(tail), len |-> 1 + m]

RECURSIVE Utf8From(_, _)
Utf8From(s, i) ==
    IF i > Len(s) THEN TRUE
    ELSE LET c == Chunk(s, i)
         IN  c.valid /\ Utf8From(s, i + c.len)

\* simdutf8::basic::from_utf8(data).is_ok(), std::str::from_utf8(bytes).is_ok()
from_utf8_is_ok(s) == Utf8From(s, 1)

\* s.chars().all(|c| !c.is_control()) for well-formed s: the control
\* characters are U+0000..U+001F, U+007F and U+0080..U+009F (C2 80..C2 9F).
no_control(s) ==
    \A i \in 1..Len(s) :
        /\ s[i] >= 32
        /\ s[i] # 127
        /\ ~(s[i] = 194 /\ i < Len(s) /\ s[i + 1] \in 128..159)

RECURSIVE LossyFrom(_, _)
LossyFrom(s, i) ==
    IF i > Len(s) THEN << >>
    ELSE LET c == Chunk(s, i)
         IN  (IF c.valid THEN SubSeq(s, i, i + c.len - 1) ELSE <<239, 191, 189>>)
             \o LossyFrom(s, i + c.len)

\* String::from_utf8_lossy(bytes)
from_utf8_lossy(s) == LossyFrom(s, 1)

\* The character of the standard base64 alphabet for the 6-bit value i.
B64Char(i) ==
    IF i < 26 THEN 65 + i
    ELSE IF i < 52 THEN 97 + (i - 26)
    ELSE IF i < 62 THEN 48 + (i - 52)
    ELSE IF i = 62 THEN 43 ELSE 47

RECURSIVE base64_encode(_)
\* BASE64_STANDARD.encode(bytes): padded with '='.
base64_encode(s) ==
    IF s = << >> THEN << >>
    ELSE IF Len(s) = 1
         THEN <<B64Char(s[1] \div 4), B64Char((s[1] % 4) * 16), 61, 61>>
    ELSE IF Len(s) = 2
         THEN <<B64Char(s[1] \div 4), B64Char((s[1] % 4) * 16 + s[2] \div 16),
                B64Char((s[2] % 16) * 4), 61>>
    ELSE <<B64Char(s[1] \div 4), B64Char((s[1] % 4) * 16 + s[2] \div 16),
           B64Char((s[2] % 16) * 4 + s[3] \div 64), B64Char(s[3] % 64)>>
         \o base64_encode(SubSeq(s, 4, Len(s)))

----------------------------------------------------------------------------
(* src/src/parser.rs: the projector *)

BytesEncoding == {"Auto", "Base64", "ByteArray", "StringLossy"}

Number(v) == [t |-> "num", v |-> v]

String(s) == [t |-> "str", v |-> s]

Array(a) == [t |-> "arr", v |-> a]

Object(m) == [t |-> "obj", v |-> m]

\* RESERVED_FIELD_NUMBER.contains(&number), the range 19000..20000
ReservedLow == 19000

ReservedHigh == 20000

RESERVED_FIELD_NUMBER_contains(number) ==
    /\ Len(number) <= 15
    /\ ToNat(number) >= ReservedLow
    /\ ToNat(number) < ReservedHigh

\* match self.bytes_encoding { ... }
encode_bytes(enc, bytes) ==
    CASE enc = "Auto" ->
            IF from_utf8_is_ok(bytes) THEN String(bytes)
            ELSE String(base64_encode(bytes))
      [] enc = "Base64" -> String(base64_encode(bytes))
      [] enc = "ByteArray" -> Array(AsSeq([i \in 1..Len(bytes) |-> Number(FromByte(bytes[i]))]))
      [] enc = "StringLossy" -> String(from_utf8_lossy(bytes))

\* map_put that puts the new value before the old one.
map_put_reversed(map, key, value) ==
    IF key \in DOMAIN map
    THEN IF map[key].t = "arr"
         THEN [map EXCEPT ![key] = Array(<<value>> \o @.v)]
         ELSE [map EXCEPT ![key] = Array(<<value, @>>)]
    ELSE map @@ (key :> value)

\* if let Some(existing) = map.get_mut(&key) { ... } else { map.insert(key, value) }
map_put(map, key, value) ==
    IF key \in DOMAIN map
    THEN IF map[key].t = "arr"
         THEN [map EXCEPT ![key] = Array(Append(@.v, value))]
         ELSE [map EXCEPT ![key] = Array(<<@, value>>)]
    ELSE map @@ (key :> value)

IsBroken(value) == value.kind \in {"Invalid", "Incomplete"}

RECURSIVE parse_to_json(_, _, _)

\* `if let Some(v) = self.parse_to_json(&data, false) { v } else { ... }`
nested_or_bytes(enc, bytes, nested) ==
    IF nested.some THEN nested.v ELSE encode_bytes(enc, bytes)

\* The value of `match field.value { ... }` for a field that is neither
\* Invalid nor Incomplete.
value_to_json(enc, value) ==
    CASE value.kind = "Varint" -> Number(as_usize(value.v))
      [] value.kind = "Fixed64" -> Number(value.v)
      [] value.kind = "Fixed32" -> Number(value.v)
      [] value.kind = "LengthDelimited" ->
            nested_or_bytes(enc, value.bytes, parse_to_json(enc, value.bytes, FALSE))

\* The check with `first_layer` in place of `!first_layer`.
is_nested_text_top(d, first_layer) ==
    first_layer /\ from_utf8_is_ok(d) /\ no_control(d)

\* !first_layer && utf8_str.is_ok_and(|s| s.chars().all(|c| !c.is_control()))
is_nested_text(d, first_layer) ==
    ~first_layer /\ from_utf8_is_ok(d) /\ no_control(d)

RECURSIVE fields_loop(_, _, _, _, _)

\* The loop that breaks at a broken field at every level.
fields_loop_break(enc, fields, i, map, first_layer) ==
    IF i > Len(fields) THEN Some(Object(map))
    ELSE IF IsBroken(fields[i].value) THEN Some(Object(map))
         ELSE fields_loop(enc, fields, i + 1,
                          map_put(map, to_string(fields[i].number),
                                  value_to_json(enc, fields[i].value)),
                          first_layer)

\* `for field in fields { ... }` from field i on, and the return after it.
fields_loop(enc, fields, i, map, first_layer) ==
    IF i > Len(fields) THEN Some(Object(map))
    ELSE IF IsBroken(fields[i].value)
         THEN IF first_layer THEN Some(Object(map)) ELSE None
         ELSE fields_loop(enc, fields, i + 1,
                          map_put(map, to_string(fields[i].number),
                                  value_to_json(enc, fields[i].value)),
                          first_layer)

\* parse_to_json from `let msg = self.parse_once(data)` on, m being msg.
project_message(enc, d, first_layer, m) ==
    IF m.fields = << >> THEN None
    ELSE IF /\ ~first_layer
            /\ from_utf8_is_ok(d)
            /\ \/ m.garbage.some
               \/ \E k \in 1..Len(m.fields) :
                     RESERVED_FIELD_NUMBER_contains(m.fields[k].number)
         THEN None
         ELSE fields_loop(enc, m.fields, 1, << >>, first_layer)

\* Parser::parse_to_json(data, first_layer) of a parser with encoding enc.
parse_to_json(enc, d, first_layer) ==
    IF d = << >> THEN None
    ELSE IF is_nested_text(d, first_layer) THEN None
         ELSE project_message(enc, d, first_layer, parse_once(d))

\* Parser::parse(data)
parse(enc, d) == parse_to_json(enc, d, TRUE)

----------------------------------------------------------------------------
(* Inputs. *)

\* The bytes of the alphabet: a length or value (1, 2), a tag with an invalid
\* wire type (3), the tags of field 1 as varint (8) and as length-delimited
\* (10), 'H', which is also the tag of field 9 as varint (72), and a byte with
\* the continuation bit (128).
Alphabet == {1, 2, 3, 8, 10, 72, 128}

Repeat(b, n) == AsSeq([i \in 1..n |-> b])

\* The inputs of the tests of parser.rs and varint.rs.
TestVectors ==
    { <<13, 28, 0, 0, 0, 18, 3, 89, 111, 117, 26, 2, 77, 101, 32, 43, 42, 10, 10, 6,
        97, 98, 99, 49, 50, 51, 18, 0>>,
      <<74, 5, 0, 1, 2, 3, 4>>,
      Repeat(255, 9) \o <<1>>,
      <<0>>, <<172, 2>>, <<255, 255, 255>> }

\* Longer inputs: ten and eleven continuation bytes; a repeated field number
\* with varint, fixed32 and fixed64 values; a nested message; printable text
\* that parses as fields ("HH", "HHHH"), once and repeated; a nested span
\* with a field of invalid wire type after a good field; a nested span in
\* well-formed UTF-8 with a reserved field number (19001); an incomplete
\* fixed32 followed by a field; spans that are not well-formed UTF-8; a
\* varint of ten bytes followed by a field; a length-delimited value followed
\* by one with too few bytes; a length prefix of 2^35 - 1.
EdgeVectors ==
    { Repeat(255, 10) \o <<1>>, Repeat(128, 9) \o <<1>>, Repeat(128, 10),
      Repeat(255, 9) \o <<127>>, Repeat(255, 9) \o <<1, 8, 1>>,
      <<10, 2, 72, 72, 10, 5, 1>>, <<10, 255, 255, 255, 255, 127, 1>>,
      <<10, 3, 8, 1, 3, 8, 1, 3, 8, 2>>,
      <<8, 1, 8, 2>>, <<8, 1, 16, 5, 8, 2>>, <<8, 1, 8, 2, 8, 3>>,
      <<13, 1, 0, 0, 128, 13, 2, 0, 0, 0>>,
      <<9, 255, 255, 255, 255, 255, 255, 255, 255, 8, 1>>,
      <<8, 255, 255, 255, 255, 255, 255, 255, 255, 255, 1>>,
      <<10, 2, 8, 1>>, <<10, 2, 8, 1, 10, 2, 8, 2>>,
      <<10, 2, 72, 72>>, <<10, 4, 72, 72, 72, 72>>,
      <<10, 2, 72, 72, 10, 1, 72>>, <<10, 1, 65, 10, 1, 66>>,
      <<10, 3, 8, 1, 3>>, <<10, 4, 10, 2, 8, 1>>,
      <<10, 4, 200, 163, 9, 1>>, <<10, 4, 72, 72, 8, 128>>,
      <<13, 8, 0>>, <<8, 1, 3, 8, 2>>, <<8, 1, 11, 8, 1>>,
      <<10, 2, 194, 128>>, <<10, 3, 226, 130, 72>>, <<10, 2, 255, 8>>,
      <<192, 163, 9, 1>> }

\* u64 values at the ends of every length of encoding: 2^j - 1 and 2^j, and
\* 300 and 0x5555555555555555 for mixed groups.
U64Samples ==
    {Repeat(1, j) : j \in 0..U64_BITS} \cup {Repeat(0, j) \o <<1>> : j \in 0..(U64_BITS - 1)}
    \cup {<<0, 0, 1, 1, 0, 1, 0, 0, 1>>, AsSeq([i \in 1..(U64_BITS - 1) |-> i % 2])}

\* The base-128 varint of a u64: groups of 7 bits, least significant group
\* first, the continuation bit on every byte but the last; zero is one byte.
encode_var(v) ==
    LET n == Max(1, (Len(v) + 6) \div 7)
    IN  AsSeq([i \in 1..n |->
                 ToNat(SubSeq(v, 7 * (i - 1) + 1, Min(7 * i, Len(v))))
                 + (IF i < n THEN 128 ELSE 0)])

Encodings == {encode_var(v) : v \in U64Samples}

Inputs ==
    UNION {[1..n -> Alphabet] : n \in 0..MaxLen}
    \cup TestVectors \cup EdgeVectors \cup Encodings

----------------------------------------------------------------------------
(* The program: a caller holds a buffer and a Parser and calls one of       *)
(* decode_var, Parser::parse_once and Parser::parse. The loop of parse_once *)
(* is taken one iteration at a time.                                        *)

Init ==
    /\ input \in Inputs
    /\ bytes_encoding \in BytesEncoding
    /\ op = "none"
    /\ pc = "idle"
    /\ data = input
    /\ msg = EmptyMessage
    /\ ret = None

\* decode_var(&mut data)
call_decode_var ==
    /\ pc = "idle"
    /\ LET r == decode_var(data)
       IN  /\ data' = r.src
           /\ ret' = [ok |-> r.ok, value |-> r.value]
    /\ op' = "decode_var"
    /\ pc' = "done"
    /\ UNCHANGED <<input, bytes_encoding, msg>>

\* parser.parse_once(data) up to its loop
call_parse_once ==
    /\ pc = "idle"
    /\ op' = "parse_once"
    /\ pc' = "loop"
    /\ msg' = EmptyMessage
    /\ UNCHANGED <<input, bytes_encoding, data, ret>>

\* parse_once_step without the break of the Err arm.
parse_once_step_no_break ==
    LET s == parse_once_iter(data, msg)
        left == s.done /\ ~s.msg.garbage.some
    IN  /\ data' = s.data
        /\ msg' = s.msg
        /\ pc' = IF left THEN "done" ELSE "loop"
        /\ ret' = IF left THEN s.msg ELSE ret
        /\ UNCHANGED <<input, bytes_encoding, op>>

\* One iteration of the loop; when it leaves the loop, msg is returned.
parse_once_step ==
    LET s == parse_once_iter(data, msg)
    IN  /\ data' = s.data
        /\ msg' = s.msg
        /\ pc' = IF s.done THEN "done" ELSE "loop"
        /\ ret' = IF s.done THEN s.msg ELSE ret
        /\ UNCHANGED <<input, bytes_encoding, op>>

\* if data.is_empty() { break }
parse_once_break ==
    /\ pc = "loop"
    /\ data = << >>
    /\ parse_once_step

\* the tag does not decode: garbage, break
parse_once_garbage ==
    /\ pc = "loop"
    /\ data # << >>
    /\ ~decode_var(data).ok
    /\ parse_once_step

\* the tag decodes: the field is decoded and pushed
parse_once_field ==
    /\ pc = "loop"
    /\ data # << >>
    /\ decode_var(data).ok
    /\ parse_once_step

\* parser.parse(data)
call_parse ==
    /\ pc = "idle"
    /\ ret' = parse(bytes_encoding, data)
    /\ op' = "parse"
    /\ pc' = "done"
    /\ UNCHANGED <<input, bytes_encoding, data, msg>>

Next ==
    \/ call_decode_var
    \/ call_parse_once
    \/ parse_once_break
    \/ parse_once_garbage
    \/ parse_once_field
    \/ call_parse

Spec == Init /\ [][Next]_vars

----------------------------------------------------------------------------
(* Claims. *)

ParseOnceReturned == op = "parse_once" /\ pc = "done"

DecodeVarReturned == op = "decode_var" /\ pc = "done"

ParseReturned == op = "parse" /\ pc = "done"

RECURSIVE SpanBytes(_)
\* The bytes of the spans that the Invalid and Incomplete fields carry.
SpanBytes(fields) ==
    IF fields = << >> THEN 0
    ELSE (IF IsBroken(Head(fields).value) THEN Len(Head(fields).value.bytes) ELSE 0)
         + SpanBytes(Tail(fields))

GarbageLen(m) == IF m.garbage.some THEN Len(m.garbage.v) ELSE 0

\* The bytes the fields of the returned message account for: those the cursor
\* passed (every tag, length prefix and value read) and the spans carried by
\* Invalid and Incomplete values.
FieldBytes == (Len(input) - Len(data)) + SpanBytes(ret.fields)

\* C1: when parse_once returns, the bytes its fields consumed (tag, length
\* prefix and value bytes, an Invalid or Incomplete value counting the span
\* it carries) plus the length of garbage equal the length of the input.
C1_BytesAccounted ==
    ParseOnceReturned => FieldBytes + GarbageLen(ret) = Len(input)

\* C2: parse_once terminates: an iteration of its loop either leaves the
\* loop (the cursor is empty, or the tag does not decode and garbage is set)
\* and returns the message, or strictly shortens the cursor, whatever the
\* value of the field it pushed; so the length of the cursor is a variant of
\* the loop, and the iterations made never exceed the bytes read.
C2_ParseOnceTerminates ==
    /\ [][pc = "loop" =>
            \/ pc' = "done" /\ (data = << >> \/ msg'.garbage.some) /\ ret' = msg'
            \/ pc' = "loop" /\ Len(data') < Len(data)]_vars
    /\ [](pc = "loop" => Len(msg.fields) <= Len(input) - Len(data))

\* parse_once has returned a message of several fields with an Invalid or
\* Incomplete value among them.
C2_Witness ==
    /\ ParseOnceReturned
    /\ Len(ret.fields) >= 2
    /\ \E i \in 1..Len(ret.fields) : IsBroken(ret.fields[i].value)

\* C6: decode_var succeeds exactly when one of the first 10 bytes present has
\* its continuation bit clear, and then the cursor has advanced to just after
\* the first such byte; otherwise it fails and the cursor is as it was. The
\* cursor never passes the end of the input.
C6_DecodeVarAtomic ==
    DecodeVarReturned =>
        LET clear == {i \in 1..Min(10, Len(input)) : input[i] < 128}
        IN  /\ ret.ok <=> clear # {}
            /\ ret.ok => \E k \in clear :
                            /\ \A j \in clear : k <= j
                            /\ data = SubSeq(input, k + 1, Len(input))
            /\ ~ret.ok => data = input
            /\ Len(input) - Len(data) \in 0..Len(input)

\* decode_var has read a varint of ten bytes and left bytes behind it.
C6_Witness ==
    /\ DecodeVarReturned
    /\ ret.ok
    /\ Len(input) - Len(data) = 10
    /\ data # << >>

\* C7: an iteration of parse_once that pushes a LengthDelimited value pushes
\* a span whose length is the length prefix decoded after the tag, the bytes
\* that follow the prefix; and when fewer bytes than the prefix says follow
\* it, the value pushed is Incomplete.
C7_LengthDelimitedSpan ==
    [][(pc = "loop" /\ Len(msg'.fields) = Len(msg.fields) + 1) =>
          LET value == msg'.fields[Len(msg'.fields)].value
              tag == decode_var(data)
              prefix == decode_var(tag.src)
          IN  /\ value.kind = "LengthDelimited" =>
                    /\ prefix.ok
                    /\ Len(prefix.value) <= 30
                    /\ Len(value.bytes) = ToNat(prefix.value)
                    /\ value.bytes = SubSeq(prefix.src, 1, Len(value.bytes))
              /\ (/\ LowBits3(tag.value) = 2
                  /\ prefix.ok
                  /\ NatLess(Len(prefix.src), prefix.value)) =>
                    value.kind = "Incomplete"]_vars

\* parse_once has pushed a LengthDelimited value of two bytes or more and,
\* after it, an Incomplete value of the LengthDelimited wire type.
C7_Witness ==
    /\ op = "parse_once"
    /\ \E i, j \in 1..Len(msg.fields) :
          /\ i < j
          /\ msg.fields[i].value.kind = "LengthDelimited"
          /\ Len(msg.fields[i].value.bytes) >= 2
          /\ msg.fields[j].value.kind = "Incomplete"
          /\ msg.fields[j].value.wire_type.kind = "LengthDelimited"

U64_MAX == Repeat(1, U64_BITS)

\* C8: decode_var of the varint of a u64 returns the u64 and consumes the
\* whole encoding; the varint of u64::MAX is 10 bytes long.
C8_VarintRoundTrip ==
    DecodeVarReturned =>
        \A v \in U64Samples :
            input = encode_var(v) =>
                /\ ret.ok
                /\ ret.value = v
                /\ data = << >>
                /\ v = U64_MAX => Len(input) = 10

\* decode_var has decoded the varint of u64::MAX.
C8_Witness ==
    /\ DecodeVarReturned
    /\ input = encode_var(U64_MAX)
    /\ ret.ok
    /\ ret.value = U64_MAX

\* C9: in parse_once a field whose value is Invalid or Incomplete is the last
\* of the fields, the cursor after it is empty, and garbage is absent.
C9_BrokenFieldIsLast ==
    op = "parse_once" =>
        \A i \in 1..Len(msg.fields) :
            IsBroken(msg.fields[i].value) =>
                /\ i = Len(msg.fields)
                /\ data = << >>
                /\ ~msg.garbage.some

\* The fields of the input as the top-level call decodes them, and those it
\* processes: the fields before the first Invalid or Incomplete one.
TopFields == parse_once(input).fields

FirstBroken(fields) ==
    LET broken == {i \in 1..Len(fields) : IsBroken(fields[i].value)}
    IN  IF broken = {} THEN Len(fields) + 1
        ELSE CHOOSE i \in broken : \A j \in broken : i <= j

Processed == SubSeq(TopFields, 1, FirstBroken(TopFields) - 1)

\* The places of the processed fields with the number of field i, and the
\* place of field i among them.
Occurrences(i) == {j \in 1..Len(Processed) : Processed[j].number = Processed[i].number}

Place(i) == Cardinality({j \in Occurrences(i) : j <= i})

KeyOf(i) == to_string(Processed[i].number)

IsText(bytes) == from_utf8_is_ok(bytes) /\ no_control(bytes)

IsTextField(i) ==
    /\ Processed[i].value.kind = "LengthDelimited"
    /\ IsText(Processed[i].value.bytes)

IsScalar(value) == value.kind \in {"Varint", "Fixed64", "Fixed32"}

\* C3 as claimed: under every encoding, the key of a processed
\* length-delimited field whose bytes are well-formed UTF-8 without control
\* characters holds a JSON string.
C3_TextIsString ==
    ParseReturned =>
        \A i \in 1..Len(Processed) :
            IsTextField(i) =>
                /\ ret.some
                /\ KeyOf(i) \in DOMAIN ret.v.v
                /\ ret.v.v[KeyOf(i)].t = "str"

\* C3 as amended: such a field is never rendered as a nested object. Under
\* Auto, Base64 and StringLossy it is rendered as a JSON string: the value of
\* its key when its number occurs once among the processed fields, and
\* otherwise the element at its place in the array of its key. Under
\* ByteArray the value of its key is a JSON array: the array of the values of
\* its bytes when its number occurs once.
C3_TextNeverObject ==
    ParseReturned =>
        \A i \in 1..Len(Processed) :
            IsTextField(i) =>
                /\ ~parse_to_json(bytes_encoding, Processed[i].value.bytes, FALSE).some
                /\ ret.some
                /\ KeyOf(i) \in DOMAIN ret.v.v
                /\ LET v == ret.v.v[KeyOf(i)]
                       once == Cardinality(Occurrences(i)) = 1
                       bytes == Processed[i].value.bytes
                   IN  /\ v.t # "obj"
                       /\ (bytes_encoding # "ByteArray" /\ once) => v.t = "str"
                       /\ (bytes_encoding # "ByteArray" /\ ~once) =>
                             /\ v.t = "arr"
                             /\ Len(v.v) = Cardinality(Occurrences(i))
                             /\ v.v[Place(i)].t = "str"
                       /\ (bytes_encoding = "ByteArray") => v.t = "arr"
                       /\ (bytes_encoding = "ByteArray" /\ once) =>
                             /\ Len(v.v) = Len(bytes)
                             /\ \A k \in 1..Len(bytes) :
                                   /\ v.v[k].t = "num"
                                   /\ v.v[k].v = FromByte(bytes[k])

\* parse has met, under ByteArray, a length-delimited field whose bytes are
\* text and also decode as fields, none of them broken, and no garbage.
C3_Witness ==
    /\ ParseReturned
    /\ bytes_encoding = "ByteArray"
    /\ \E i \in 1..Len(Processed) :
          /\ IsTextField(i)
          /\ LET m == parse_once(Processed[i].value.bytes)
             IN  /\ m.fields # << >>
                 /\ ~m.garbage.some
                 /\ FirstBroken(m.fields) > Len(m.fields)

\* The object that the projector builds from fields none of which is broken.
ObjectOf(fields) == fields_loop(bytes_encoding, fields, 1, << >>, TRUE).v.v

HasBroken(fields) == FirstBroken(fields) <= Len(fields)

\* C4: when a field of the top-level call is Invalid or Incomplete, parse
\* returns the object built from the fields before it, in order; a nested
\* call on a span one of whose fields is Invalid or Incomplete returns None,
\* whatever precedes that field, and the value of the enclosing field is the
\* span under the byte-encoding policy.
C4_BrokenFieldByLevel ==
    ParseReturned =>
        /\ HasBroken(TopFields) =>
              /\ ret.some
              /\ ret.v.t = "obj"
              /\ ret.v.v = ObjectOf(Processed)
        /\ \A i \in 1..Len(Processed) :
              LET value == Processed[i].value
              IN  (/\ value.kind = "LengthDelimited"
                   /\ HasBroken(parse_once(value.bytes).fields)) =>
                      /\ ~parse_to_json(bytes_encoding, value.bytes, FALSE).some
                      /\ Cardinality(Occurrences(i)) = 1 =>
                            LET v == ret.v.v[KeyOf(i)]
                                e == encode_bytes(bytes_encoding, value.bytes)
                            IN  v.t = e.t /\ v.v = e.v

\* parse has stopped at a broken field that has fields before and after it;
\* one of those before it is a span with a broken field after a good one.
C4_Witness ==
    /\ ParseReturned
    /\ FirstBroken(TopFields) > 1
    /\ FirstBroken(TopFields) < Len(TopFields)
    /\ \E i \in 1..Len(Processed) :
          /\ Processed[i].value.kind = "LengthDelimited"
          /\ FirstBroken(parse_once(Processed[i].value.bytes).fields) > 1
          /\ HasBroken(parse_once(Processed[i].value.bytes).fields)

\* C5: the key of a number that occurs once among the processed fields, with
\* a scalar value, holds that number; the key of a number that occurs twice,
\* with scalar values, holds the array of the two in the order met.
C5_GroupingLaw ==
    ParseReturned =>
        \A i \in 1..Len(Processed) :
            LET occ == Occurrences(i)
                v == ret.v.v[KeyOf(i)]
            IN  /\ (Cardinality(occ) = 1 /\ IsScalar(Processed[i].value)) =>
                      /\ v.t = "num"
                      /\ v.v = Processed[i].value.v
                /\ \A j \in occ :
                      (/\ Cardinality(occ) = 2
                       /\ i < j
                       /\ IsScalar(Processed[i].value)
                       /\ IsScalar(Processed[j].value)) =>
                          /\ v.t = "arr"
                          /\ Len(v.v) = 2
                          /\ v.v[1].t = "num" /\ v.v[1].v = Processed[i].value.v
                          /\ v.v[2].t = "num" /\ v.v[2].v = Processed[j].value.v

\* parse has processed a number that occurs twice with two different scalar
\* values and a number that occurs once with a scalar value.
C5_Witness ==
    /\ ParseReturned
    /\ \E i, j, k \in 1..Len(Processed) :
          /\ i < j
          /\ Occurrences(i) = {i, j}
          /\ Occurrences(k) = {k}
          /\ IsScalar(Processed[i].value)
          /\ IsScalar(Processed[j].value)
          /\ IsScalar(Processed[k].value)
          /\ Processed[i].value.v # Processed[j].value.v

\* C10: an object that parse, or a nested call on the span of a processed
\* field, returns has a key; when no field is processed, parse returns None.
C10_NeverEmptyObject ==
    ParseReturned =>
        /\ ret.some => DOMAIN ret.v.v # {}
        /\ Len(Processed) = 0 => ~ret.some
        /\ \A i \in 1..Len(Processed) :
              Processed[i].value.kind = "LengthDelimited" =>
                  LET nested == parse_to_json(bytes_encoding, Processed[i].value.bytes, FALSE)
                  IN  nested.some => DOMAIN nested.v.v # {}

\* The rendered value of processed field i.
Rendered(i) == value_to_json(bytes_encoding, Processed[i].value)

\* C11: under every encoding, the key of a number that occurs k >= 2 times
\* among the processed fields holds an array of exactly k elements, the
\* element at the place of each occurrence being the rendered value of that
\* occurrence, a rendered array included.
C11_RepeatedKeyKeepsEachValue ==
    ParseReturned =>
        \A i \in 1..Len(Processed) :
            Cardinality(Occurrences(i)) >= 2 =>
                LET v == ret.v.v[KeyOf(i)]
                IN  /\ v.t = "arr"
                    /\ Len(v.v) = Cardinality(Occurrences(i))
                    /\ v.v[Place(i)].t = Rendered(i).t
                    /\ v.v[Place(i)].v = Rendered(i).v

====
